---- MODULE Spec2Model ----
(***************************************************************************)
(* create_simple_xcode_project.py: the generator of                        *)
(* BetterDocs.xcodeproj/project.pbxproj.  One invocation draws 15 random   *)
(* identifiers, prints a banner, ensures the project directory, renders    *)
(* the f-string template, writes it with open(..., "w") and prints a       *)
(* confirmation.  The rendered document is modelled as its sequence of     *)
(* lexical tokens, one model line per source line of the template.         *)
(***************************************************************************)
EXTENDS Naturals, Integers, Sequences, FiniteSets, TLC

VARIABLES
    pc,               \* pc[p]: the statement invocation p executes next
    ids,              \* ids[p][role]: the module-level *_uuid variables
    pbxproj_content,  \* pbxproj_content[p]: the rendered document
    fs_dir,           \* what the path BetterDocs.xcodeproj is
    fs_file,          \* BetterDocs.xcodeproj/project.pbxproj
    fh,               \* fh[p]: the file object f of the with statement
    events,           \* events[p]: prints and system calls, in order
    exitcode,         \* exitcode[p]: -1 while running, then the exit status
    lastWriter,       \* the invocation whose data reached the file last (0: none)
    startedAfter      \* startedAfter[p]: the invocations over when p started

vars == <<pc, ids, pbxproj_content, fs_dir, fs_file, fh, events, exitcode,
          lastWriter, startedAfter>>

\* ---------------------------------------------------------------- bounds

\* How many different all-fresh outcomes of the 15 draws are modelled.
NumSeeds == 2

\* A failing write leaves one of NumCuts prefixes of the data in the file.
NumCuts == 2


\* The invocations: one alone (Spec), or two against the same path (SpecConc).
Procs == {1, 2}

\* ------------------------------------------------------------ identifiers

\* The module-level identifier variables, in the order they are assigned.
RoleOrder ==
    << "project_uuid", "main_group_uuid", "products_group_uuid",
       "sources_group_uuid", "native_target_uuid", "config_list_uuid",
       "target_config_list_uuid", "debug_config_uuid", "release_config_uuid",
       "target_debug_uuid", "target_release_uuid", "sources_build_phase_uuid",
       "frameworks_build_phase_uuid", "resources_build_phase_uuid",
       "product_ref_uuid" >>

Roles == {RoleOrder[i] : i \in 1..Len(RoleOrder)}

RoleIndex(r) == CHOOSE i \in 1..Len(RoleOrder) : RoleOrder[i] = r

\* Values standing for the first 24 hex digits of a UUID's 32.
HexHeads ==
    << "0a01", "0a02", "0a03", "0a04", "0a05", "0a06", "0a07", "0a08", "0a09",
       "0a0a", "0a0b", "0a0c", "0a0d", "0a0e", "0a0f", "0a10", "0a11", "0a12",
       "0a13", "0a14" >>

\* uuid.uuid4(): a random UUID, here its 32 hex digits split where [:24] cuts.
\* The outcomes modelled for the 15 draws of one invocation: all different
\* (one per seed), or two of them agreeing in their first 24 digits while
\* differing in the last 8.
FreshDraws(s) ==
    [r \in Roles |-> [head |-> HexHeads[RoleIndex(r) + s], tail |-> "ffff0000"]]

CollidingDraws(s, r1, r2) ==
    [FreshDraws(s) EXCEPT ![r2] = [head |-> FreshDraws(s)[r1].head, tail |-> "ffff0001"]]

RolePairs ==
    {ij \in (1..Len(RoleOrder)) \X (1..Len(RoleOrder)) : ij[1] < ij[2]}

Uuid4Draws ==
    {FreshDraws(s) : s \in 0..(NumSeeds - 1)}
    \cup {CollidingDraws(s, RoleOrder[ij[1]], RoleOrder[ij[2]]) :
              s \in 0..(NumSeeds - 1), ij \in RolePairs}

\* The outcomes modelled when two invocations run against the same path.
Uuid4DrawsConc ==
    {FreshDraws(s) : s \in 0..(NumSeeds - 1)}
    \cup {CollidingDraws(0, "main_group_uuid", "products_group_uuid")}

\* str(u).replace('-', '')[:24]: the dashes go, the last 8 digits are cut off.
Identifier(u) == u.head

NoIds == [r \in Roles |-> ""]

\* ----------------------------------------------------------------- tokens

\* The lexical tokens of the document text.
\* a comment (its brackets, if any, would be text: the template has none)
C(s) == [t |-> "comment", v |-> s]
\* one of { } ( ) = ; , outside strings and comments
P(c) == [t |-> "punct", v |-> c]
\* an unquoted word
A(s) == [t |-> "atom", v |-> s]
\* an f-string replacement field {role}
S(r) == [t |-> "slot", v |-> r]
\* a double quote
Q == [t |-> "quote", v |-> "\""]
\* text inside a quoted string
ST(s) == [t |-> "strtext", v |-> s]
\* one of { } ( ) inside a quoted string
SP(c) == [t |-> "strpunct", v |-> c]
\* a substituted identifier
IdTok(x) == [t |-> "id", v |-> x]

\* pbxproj_content, source lines 31-37
Header ==
    <<C("!$*UTF8*$!")>> \o   \* line 31
    <<P("{")>> \o   \* line 32
    <<A("archiveVersion"), P("="), A("1"), P(";")>> \o   \* line 33
    <<A("classes"), P("="), P("{")>> \o   \* line 34
    <<P("}"), P(";")>> \o   \* line 35
    <<A("objectVersion"), P("="), A("77"), P(";")>> \o   \* line 36
    <<A("objects"), P("="), P("{")>>   \* line 37

\* PBXFileReferenceSection with the isa of a group.
PBXFileReferenceSection_AsGroup ==
    <<C("Begin PBXFileReference section")>> \o   \* line 39
    <<S("product_ref_uuid"), C("BetterDocs.app"), P("="), P("{"), A("isa"), P("="), A("PBXGroup"), P(";"), A("explicitFileType"), P("="), A("wrapper.application"), P(";"), A("includeInIndex"), P("="), A("0"), P(";"), A("path"), P("="), A("BetterDocs.app"), P(";"), A("sourceTree"), P("="), A("BUILT_PRODUCTS_DIR"), P(";"), P("}"), P(";")>> \o   \* line 40
    <<C("End PBXFileReference section")>>   \* line 41

\* PBXFileReferenceSection keyed by the products group's identifier.
PBXFileReferenceSection_WrongKey ==
    <<C("Begin PBXFileReference section")>> \o   \* line 39
    <<S("products_group_uuid"), C("BetterDocs.app"), P("="), P("{"), A("isa"), P("="), A("PBXFileReference"), P(";"), A("explicitFileType"), P("="), A("wrapper.application"), P(";"), A("includeInIndex"), P("="), A("0"), P(";"), A("path"), P("="), A("BetterDocs.app"), P(";"), A("sourceTree"), P("="), A("BUILT_PRODUCTS_DIR"), P(";"), P("}"), P(";")>> \o   \* line 40
    <<C("End PBXFileReference section")>>   \* line 41

\* pbxproj_content, source lines 39-41
PBXFileReferenceSection ==
    <<C("Begin PBXFileReference section")>> \o   \* line 39
    <<S("product_ref_uuid"), C("BetterDocs.app"), P("="), P("{"), A("isa"), P("="), A("PBXFileReference"), P(";"), A("explicitFileType"), P("="), A("wrapper.application"), P(";"), A("includeInIndex"), P("="), A("0"), P(";"), A("path"), P("="), A("BetterDocs.app"), P(";"), A("sourceTree"), P("="), A("BUILT_PRODUCTS_DIR"), P(";"), P("}"), P(";")>> \o   \* line 40
    <<C("End PBXFileReference section")>>   \* line 41

\* pbxproj_content, source lines 43-49
PBXFileSystemSynchronizedRootGroupSection ==
    <<C("Begin PBXFileSystemSynchronizedRootGroup section")>> \o   \* line 43
    <<S("sources_group_uuid"), C("BetterDocs"), P("="), P("{")>> \o   \* line 44
    <<A("isa"), P("="), A("PBXFileSystemSynchronizedRootGroup"), P(";")>> \o   \* line 45
    <<A("path"), P("="), A("BetterDocs/Sources"), P(";")>> \o   \* line 46
    <<A("sourceTree"), P("="), Q, ST("<group>"), Q, P(";")>> \o   \* line 47
    <<P("}"), P(";")>> \o   \* line 48
    <<C("End PBXFileSystemSynchronizedRootGroup section")>>   \* line 49

\* pbxproj_content, source lines 51-59
PBXFrameworksBuildPhaseSection ==
    <<C("Begin PBXFrameworksBuildPhase section")>> \o   \* line 51
    <<S("frameworks_build_phase_uuid"), C("Frameworks"), P("="), P("{")>> \o   \* line 52
    <<A("isa"), P("="), A("PBXFrameworksBuildPhase"), P(";")>> \o   \* line 53
    <<A("buildActionMask"), P("="), A("2147483647"), P(";")>> \o   \* line 54
    <<A("files"), P("="), P("(")>> \o   \* line 55
    <<P(")"), P(";")>> \o   \* line 56
    <<A("runOnlyForDeploymentPostprocessing"), P("="), A("0"), P(";")>> \o   \* line 57
    <<P("}"), P(";")>> \o   \* line 58
    <<C("End PBXFrameworksBuildPhase section")>>   \* line 59

\* pbxproj_content, source lines 61-78
PBXGroupSection ==
    <<C("Begin PBXGroup section")>> \o   \* line 61
    <<S("main_group_uuid"), P("="), P("{")>> \o   \* line 62
    <<A("isa"), P("="), A("PBXGroup"), P(";")>> \o   \* line 63
    <<A("children"), P("="), P("(")>> \o   \* line 64
    <<S("sources_group_uuid"), C("BetterDocs"), P(",")>> \o   \* line 65
    <<S("products_group_uuid"), C("Products"), P(",")>> \o   \* line 66
    <<P(")"), P(";")>> \o   \* line 67
    <<A("sourceTree"), P("="), Q, ST("<group>"), Q, P(";")>> \o   \* line 68
    <<P("}"), P(";")>> \o   \* line 69
    <<S("products_group_uuid"), C("Products"), P("="), P("{")>> \o   \* line 70
    <<A("isa"), P("="), A("PBXGroup"), P(";")>> \o   \* line 71
    <<A("children"), P("="), P("(")>> \o   \* line 72
    <<S("product_ref_uuid"), C("BetterDocs.app"), P(",")>> \o   \* line 73
    <<P(")"), P(";")>> \o   \* line 74
    <<A("name"), P("="), A("Products"), P(";")>> \o   \* line 75
    <<A("sourceTree"), P("="), Q, ST("<group>"), Q, P(";")>> \o   \* line 76
    <<P("}"), P(";")>> \o   \* line 77
    <<C("End PBXGroup section")>>   \* line 78

\* pbxproj_content, source lines 80-101
PBXNativeTargetSection ==
    <<C("Begin PBXNativeTarget section")>> \o   \* line 80
    <<S("native_target_uuid"), C("BetterDocs"), P("="), P("{")>> \o   \* line 81
    <<A("isa"), P("="), A("PBXNativeTarget"), P(";")>> \o   \* line 82
    <<A("buildConfigurationList"), P("="), S("target_config_list_uuid"), C("Build configuration list for PBXNativeTarget \"BetterDocs\""), P(";")>> \o   \* line 83
    <<A("buildPhases"), P("="), P("(")>> \o   \* line 84
    <<S("sources_build_phase_uuid"), C("Sources"), P(",")>> \o   \* line 85
    <<S("frameworks_build_phase_uuid"), C("Frameworks"), P(",")>> \o   \* line 86
    <<S("resources_build_phase_uuid"), C("Resources"), P(",")>> \o   \* line 87
    <<P(")"), P(";")>> \o   \* line 88
    <<A("buildRules"), P("="), P("(")>> \o   \* line 89
    <<P(")"), P(";")>> \o   \* line 90
    <<A("dependencies"), P("="), P("(")>> \o   \* line 91
    <<P(")"), P(";")>> \o   \* line 92
    <<A("fileSystemSynchronizedGroups"), P("="), P("(")>> \o   \* line 93
    <<S("sources_group_uuid"), C("BetterDocs"), P(",")>> \o   \* line 94
    <<P(")"), P(";")>> \o   \* line 95
    <<A("name"), P("="), A("BetterDocs"), P(";")>> \o   \* line 96
    <<A("productName"), P("="), A("BetterDocs"), P(";")>> \o   \* line 97
    <<A("productReference"), P("="), S("product_ref_uuid"), C("BetterDocs.app"), P(";")>> \o   \* line 98
    <<A("productType"), P("="), Q, ST("com.apple.product-type.application"), Q, P(";")>> \o   \* line 99
    <<P("}"), P(";")>> \o   \* line 100
    <<C("End PBXNativeTarget section")>>   \* line 101

\* pbxproj_content, source lines 103-131
PBXProjectSection ==
    <<C("Begin PBXProject section")>> \o   \* line 103
    <<S("project_uuid"), C("Project object"), P("="), P("{")>> \o   \* line 104
    <<A("isa"), P("="), A("PBXProject"), P(";")>> \o   \* line 105
    <<A("attributes"), P("="), P("{")>> \o   \* line 106
    <<A("BuildIndependentTargetsInParallel"), P("="), A("1"), P(";")>> \o   \* line 107
    <<A("LastSwiftUpdateCheck"), P("="), A("1600"), P(";")>> \o   \* line 108
    <<A("LastUpgradeCheck"), P("="), A("1600"), P(";")>> \o   \* line 109
    <<A("TargetAttributes"), P("="), P("{")>> \o   \* line 110
    <<S("native_target_uuid"), P("="), P("{")>> \o   \* line 111
    <<A("CreatedOnToolsVersion"), P("="), A("16.0"), P(";")>> \o   \* line 112
    <<P("}"), P(";")>> \o   \* line 113
    <<P("}"), P(";")>> \o   \* line 114
    <<P("}"), P(";")>> \o   \* line 115
    <<A("buildConfigurationList"), P("="), S("config_list_uuid"), C("Build configuration list for PBXProject \"BetterDocs\""), P(";")>> \o   \* line 116
    <<A("developmentRegion"), P("="), A("en"), P(";")>> \o   \* line 117
    <<A("hasScannedForEncodings"), P("="), A("0"), P(";")>> \o   \* line 118
    <<A("knownRegions"), P("="), P("(")>> \o   \* line 119
    <<A("en"), P(",")>> \o   \* line 120
    <<A("Base"), P(",")>> \o   \* line 121
    <<P(")"), P(";")>> \o   \* line 122
    <<A("mainGroup"), P("="), S("main_group_uuid"), P(";")>> \o   \* line 123
    <<A("projectDirPath"), P("="), Q, Q, P(";")>> \o   \* line 124
    <<A("productRefGroup"), P("="), S("products_group_uuid"), C("Products"), P(";")>> \o   \* line 125
    <<A("projectRoot"), P("="), Q, Q, P(";")>> \o   \* line 126
    <<A("targets"), P("="), P("(")>> \o   \* line 127
    <<S("native_target_uuid"), C("BetterDocs"), P(",")>> \o   \* line 128
    <<P(")"), P(";")>> \o   \* line 129
    <<P("}"), P(";")>> \o   \* line 130
    <<C("End PBXProject section")>>   \* line 131

\* pbxproj_content, source lines 133-141
PBXResourcesBuildPhaseSection ==
    <<C("Begin PBXResourcesBuildPhase section")>> \o   \* line 133
    <<S("resources_build_phase_uuid"), C("Resources"), P("="), P("{")>> \o   \* line 134
    <<A("isa"), P("="), A("PBXResourcesBuildPhase"), P(";")>> \o   \* line 135
    <<A("buildActionMask"), P("="), A("2147483647"), P(";")>> \o   \* line 136
    <<A("files"), P("="), P("(")>> \o   \* line 137
    <<P(")"), P(";")>> \o   \* line 138
    <<A("runOnlyForDeploymentPostprocessing"), P("="), A("0"), P(";")>> \o   \* line 139
    <<P("}"), P(";")>> \o   \* line 140
    <<C("End PBXResourcesBuildPhase section")>>   \* line 141

\* pbxproj_content, source lines 143-151
PBXSourcesBuildPhaseSection ==
    <<C("Begin PBXSourcesBuildPhase section")>> \o   \* line 143
    <<S("sources_build_phase_uuid"), C("Sources"), P("="), P("{")>> \o   \* line 144
    <<A("isa"), P("="), A("PBXSourcesBuildPhase"), P(";")>> \o   \* line 145
    <<A("buildActionMask"), P("="), A("2147483647"), P(";")>> \o   \* line 146
    <<A("files"), P("="), P("(")>> \o   \* line 147
    <<P(")"), P(";")>> \o   \* line 148
    <<A("runOnlyForDeploymentPostprocessing"), P("="), A("0"), P(";")>> \o   \* line 149
    <<P("}"), P(";")>> \o   \* line 150
    <<C("End PBXSourcesBuildPhase section")>>   \* line 151

\* pbxproj_content, source lines 153-217
ProjectDebugConfiguration ==
    <<C("Begin XCBuildConfiguration section")>> \o   \* line 153
    <<S("debug_config_uuid"), C("Debug"), P("="), P("{")>> \o   \* line 154
    <<A("isa"), P("="), A("XCBuildConfiguration"), P(";")>> \o   \* line 155
    <<A("buildSettings"), P("="), P("{")>> \o   \* line 156
    <<A("ALWAYS_SEARCH_USER_PATHS"), P("="), A("NO"), P(";")>> \o   \* line 157
    <<A("ASSTEBUILD_ONLY"), P("="), A("NO"), P(";")>> \o   \* line 158
    <<A("CLANG_ANALYZER_NONNULL"), P("="), A("YES"), P(";")>> \o   \* line 159
    <<A("CLANG_ANALYZER_NUMBER_OBJECT_CONVERSION"), P("="), A("YES_AGGRESSIVE"), P(";")>> \o   \* line 160
    <<A("CLANG_CXX_LANGUAGE_STANDARD"), P("="), Q, ST("gnu++20"), Q, P(";")>> \o   \* line 161
    <<A("CLANG_ENABLE_MODULES"), P("="), A("YES"), P(";")>> \o   \* line 162
    <<A("CLANG_ENABLE_OBJC_ARC"), P("="), A("YES"), P(";")>> \o   \* line 163
    <<A("CLANG_ENABLE_OBJC_WEAK"), P("="), A("YES"), P(";")>> \o   \* line 164
    <<A("CLANG_WARN_BLOCK_CAPTURE_AUTORELEASING"), P("="), A("YES"), P(";")>> \o   \* line 165
    <<A("CLANG_WARN_BOOL_CONVERSION"), P("="), A("YES"), P(";")>> \o   \* line 166
    <<A("CLANG_WARN_COMMA"), P("="), A("YES"), P(";")>> \o   \* line 167
    <<A("CLANG_WARN_CONSTANT_CONVERSION"), P("="), A("YES"), P(";")>> \o   \* line 168
    <<A("CLANG_WARN_DEPRECATED_OBJC_IMPLEMENTATIONS"), P("="), A("YES"), P(";")>> \o   \* line 169
    <<A("CLANG_WARN_DIRECT_OBJC_ISA_USAGE"), P("="), A("YES_ERROR"), P(";")>> \o   \* line 170
    <<A("CLANG_WARN_DOCUMENTATION_COMMENTS"), P("="), A("YES"), P(";")>> \o   \* line 171
    <<A("CLANG_WARN_EMPTY_BODY"), P("="), A("YES"), P(";")>> \o   \* line 172
    <<A("CLANG_WARN_ENUM_CONVERSION"), P("="), A("YES"), P(";")>> \o   \* line 173
    <<A("CLANG_WARN_INFINITE_RECURSION"), P("="), A("YES"), P(";")>> \o   \* line 174
    <<A("CLANG_WARN_INT_CONVERSION"), P("="), A("YES"), P(";")>> \o   \* line 175
    <<A("CLANG_WARN_NON_LITERAL_NULL_CONVERSION"), P("="), A("YES"), P(";")>> \o   \* line 176
    <<A("CLANG_WARN_OBJC_IMPLICIT_RETAIN_SELF"), P("="), A("YES"), P(";")>> \o   \* line 177
    <<A("CLANG_WARN_OBJC_LITERAL_CONVERSION"), P("="), A("YES"), P(";")>> \o   \* line 178
    <<A("CLANG_WARN_OBJC_ROOT_CLASS"), P("="), A("YES_ERROR"), P(";")>> \o   \* line 179
    <<A("CLANG_WARN_QUOTED_INCLUDE_IN_FRAMEWORK_HEADER"), P("="), A("YES"), P(";")>> \o   \* line 180
    <<A("CLANG_WARN_RANGE_LOOP_ANALYSIS"), P("="), A("YES"), P(";")>> \o   \* line 181
    <<A("CLANG_WARN_STRICT_PROTOTYPES"), P("="), A("YES"), P(";")>> \o   \* line 182
    <<A("CLANG_WARN_SUSPICIOUS_MOVE"), P("="), A("YES"), P(";")>> \o   \* line 183
    <<A("CLANG_WARN_UNGUARDED_AVAILABILITY"), P("="), A("YES_AGGRESSIVE"), P(";")>> \o   \* line 184
    <<A("CLANG_WARN_UNREACHABLE_CODE"), P("="), A("YES"), P(";")>> \o   \* line 185
    <<A("CLANG_WARN__DUPLICATE_METHOD_MATCH"), P("="), A("YES"), P(";")>> \o   \* line 186
    <<A("COPY_PHASE_STRIP"), P("="), A("NO"), P(";")>> \o   \* line 187
    <<A("DEBUG_INFORMATION_FORMAT"), P("="), A("dwarf"), P(";")>> \o   \* line 188
    <<A("ENABLE_STRICT_OBJC_MSGSEND"), P("="), A("YES"), P(";")>> \o   \* line 189
    <<A("ENABLE_TESTABILITY"), P("="), A("YES"), P(";")>> \o   \* line 190
    <<A("ENABLE_USER_SCRIPT_SANDBOXING"), P("="), A("YES"), P(";")>> \o   \* line 191
    <<A("GCC_C_LANGUAGE_STANDARD"), P("="), A("gnu17"), P(";")>> \o   \* line 192
    <<A("GCC_DYNAMIC_NO_PIC"), P("="), A("NO"), P(";")>> \o   \* line 193
    <<A("GCC_NO_COMMON_BLOCKS"), P("="), A("YES"), P(";")>> \o   \* line 194
    <<A("GCC_OPTIMIZATION_LEVEL"), P("="), A("0"), P(";")>> \o   \* line 195
    <<A("GCC_PREPROCESSOR_DEFINITIONS"), P("="), P("(")>> \o   \* line 196
    <<Q, ST("DEBUG=1"), Q, P(",")>> \o   \* line 197
    <<Q, ST("$"), SP("("), ST("inherited"), SP(")"), Q, P(",")>> \o   \* line 198
    <<P(")"), P(";")>> \o   \* line 199
    <<A("GCC_WARN_64_TO_32_BIT_CONVERSION"), P("="), A("YES"), P(";")>> \o   \* line 200
    <<A("GCC_WARN_ABOUT_RETURN_TYPE"), P("="), A("YES_ERROR"), P(";")>> \o   \* line 201
    <<A("GCC_WARN_UNDECLARED_SELECTOR"), P("="), A("YES"), P(";")>> \o   \* line 202
    <<A("GCC_WARN_UNINITIALIZED_AUTOS"), P("="), A("YES_AGGRESSIVE"), P(";")>> \o   \* line 203
    <<A("GCC_WARN_UNUSED_FUNCTION"), P("="), A("YES"), P(";")>> \o   \* line 204
    <<A("GCC_WARN_UNUSED_VARIABLE"), P("="), A("YES"), P(";")>> \o   \* line 205
    <<A("LOCALIZATION_PREFERS_STRING_CATALOGS"), P("="), A("YES"), P(";")>> \o   \* line 206
    <<A("MACOSX_DEPLOYMENT_TARGET"), P("="), A("15.0"), P(";")>> \o   \* line 207
    <<A("MTL_ENABLE_DEBUG_INFO"), P("="), A("INCLUDE_SOURCE"), P(";")>> \o   \* line 208
    <<A("MTL_FAST_MATH"), P("="), A("YES"), P(";")>> \o   \* line 209
    <<A("ONLY_ACTIVE_ARCH"), P("="), A("YES"), P(";")>> \o   \* line 210
    <<A("SDKROOT"), P("="), A("macosx"), P(";")>> \o   \* line 211
    <<A("SWIFT_ACTIVE_COMPILATION_CONDITIONS"), P("="), Q, ST("DEBUG $"), SP("("), ST("inherited"), SP(")"), Q, P(";")>> \o   \* line 212
    <<A("SWIFT_OPTIMIZATION_LEVEL"), P("="), Q, ST("-Onone"), Q, P(";")>> \o   \* line 213
    <<A("SWIFT_VERSION"), P("="), A("6.0"), P(";")>> \o   \* line 214
    <<P("}"), P(";")>> \o   \* line 215
    <<A("name"), P("="), A("Debug"), P(";")>> \o   \* line 216
    <<P("}"), P(";")>>   \* line 217

\* pbxproj_content, source lines 218-273
ProjectReleaseConfiguration ==
    <<S("release_config_uuid"), C("Release"), P("="), P("{")>> \o   \* line 218
    <<A("isa"), P("="), A("XCBuildConfiguration"), P(";")>> \o   \* line 219
    <<A("buildSettings"), P("="), P("{")>> \o   \* line 220
    <<A("ALWAYS_SEARCH_USER_PATHS"), P("="), A("NO"), P(";")>> \o   \* line 221
    <<A("ASSTEBUILD_ONLY"), P("="), A("NO"), P(";")>> \o   \* line 222
    <<A("CLANG_ANALYZER_NONNULL"), P("="), A("YES"), P(";")>> \o   \* line 223
    <<A("CLANG_ANALYZER_NUMBER_OBJECT_CONVERSION"), P("="), A("YES_AGGRESSIVE"), P(";")>> \o   \* line 224
    <<A("CLANG_CXX_LANGUAGE_STANDARD"), P("="), Q, ST("gnu++20"), Q, P(";")>> \o   \* line 225
    <<A("CLANG_ENABLE_MODULES"), P("="), A("YES"), P(";")>> \o   \* line 226
    <<A("CLANG_ENABLE_OBJC_ARC"), P("="), A("YES"), P(";")>> \o   \* line 227
    <<A("CLANG_ENABLE_OBJC_WEAK"), P("="), A("YES"), P(";")>> \o   \* line 228
    <<A("CLANG_WARN_BLOCK_CAPTURE_AUTORELEASING"), P("="), A("YES"), P(";")>> \o   \* line 229
    <<A("CLANG_WARN_BOOL_CONVERSION"), P("="), A("YES"), P(";")>> \o   \* line 230
    <<A("CLANG_WARN_COMMA"), P("="), A("YES"), P(";")>> \o   \* line 231
    <<A("CLANG_WARN_CONSTANT_CONVERSION"), P("="), A("YES"), P(";")>> \o   \* line 232
    <<A("CLANG_WARN_DEPRECATED_OBJC_IMPLEMENTATIONS"), P("="), A("YES"), P(";")>> \o   \* line 233
    <<A("CLANG_WARN_DIRECT_OBJC_ISA_USAGE"), P("="), A("YES_ERROR"), P(";")>> \o   \* line 234
    <<A("CLANG_WARN_DOCUMENTATION_COMMENTS"), P("="), A("YES"), P(";")>> \o   \* line 235
    <<A("CLANG_WARN_EMPTY_BODY"), P("="), A("YES"), P(";")>> \o   \* line 236
    <<A("CLANG_WARN_ENUM_CONVERSION"), P("="), A("YES"), P(";")>> \o   \* line 237
    <<A("CLANG_WARN_INFINITE_RECURSION"), P("="), A("YES"), P(";")>> \o   \* line 238
    <<A("CLANG_WARN_INT_CONVERSION"), P("="), A("YES"), P(";")>> \o   \* line 239
    <<A("CLANG_WARN_NON_LITERAL_NULL_CONVERSION"), P("="), A("YES"), P(";")>> \o   \* line 240
    <<A("CLANG_WARN_OBJC_IMPLICIT_RETAIN_SELF"), P("="), A("YES"), P(";")>> \o   \* line 241
    <<A("CLANG_WARN_OBJC_LITERAL_CONVERSION"), P("="), A("YES"), P(";")>> \o   \* line 242
    <<A("CLANG_WARN_OBJC_ROOT_CLASS"), P("="), A("YES_ERROR"), P(";")>> \o   \* line 243
    <<A("CLANG_WARN_QUOTED_INCLUDE_IN_FRAMEWORK_HEADER"), P("="), A("YES"), P(";")>> \o   \* line 244
    <<A("CLANG_WARN_RANGE_LOOP_ANALYSIS"), P("="), A("YES"), P(";")>> \o   \* line 245
    <<A("CLANG_WARN_STRICT_PROTOTYPES"), P("="), A("YES"), P(";")>> \o   \* line 246
    <<A("CLANG_WARN_SUSPICIOUS_MOVE"), P("="), A("YES"), P(";")>> \o   \* line 247
    <<A("CLANG_WARN_UNGUARDED_AVAILABILITY"), P("="), A("YES_AGGRESSIVE"), P(";")>> \o   \* line 248
    <<A("CLANG_WARN_UNREACHABLE_CODE"), P("="), A("YES"), P(";")>> \o   \* line 249
    <<A("CLANG_WARN__DUPLICATE_METHOD_MATCH"), P("="), A("YES"), P(";")>> \o   \* line 250
    <<A("COPY_PHASE_STRIP"), P("="), A("NO"), P(";")>> \o   \* line 251
    <<A("DEBUG_INFORMATION_FORMAT"), P("="), Q, ST("dwarf-with-dsym"), Q, P(";")>> \o   \* line 252
    <<A("ENABLE_NS_ASSERTIONS"), P("="), A("NO"), P(";")>> \o   \* line 253
    <<A("ENABLE_STRICT_OBJC_MSGSEND"), P("="), A("YES"), P(";")>> \o   \* line 254
    <<A("ENABLE_USER_SCRIPT_SANDBOXING"), P("="), A("YES"), P(";")>> \o   \* line 255
    <<A("GCC_C_LANGUAGE_STANDARD"), P("="), A("gnu17"), P(";")>> \o   \* line 256
    <<A("GCC_NO_COMMON_BLOCKS"), P("="), A("YES"), P(";")>> \o   \* line 257
    <<A("GCC_WARN_64_TO_32_BIT_CONVERSION"), P("="), A("YES"), P(";")>> \o   \* line 258
    <<A("GCC_WARN_ABOUT_RETURN_TYPE"), P("="), A("YES_ERROR"), P(";")>> \o   \* line 259
    <<A("GCC_WARN_UNDECLARED_SELECTOR"), P("="), A("YES"), P(";")>> \o   \* line 260
    <<A("GCC_WARN_UNINITIALIZED_AUTOS"), P("="), A("YES_AGGRESSIVE"), P(";")>> \o   \* line 261
    <<A("GCC_WARN_UNUSED_FUNCTION"), P("="), A("YES"), P(";")>> \o   \* line 262
    <<A("GCC_WARN_UNUSED_VARIABLE"), P("="), A("YES"), P(";")>> \o   \* line 263
    <<A("LOCALIZATION_PREFERS_STRING_CATALOGS"), P("="), A("YES"), P(";")>> \o   \* line 264
    <<A("MACOSX_DEPLOYMENT_TARGET"), P("="), A("15.0"), P(";")>> \o   \* line 265
    <<A("MTL_ENABLE_DEBUG_INFO"), P("="), A("NO"), P(";")>> \o   \* line 266
    <<A("MTL_FAST_MATH"), P("="), A("YES"), P(";")>> \o   \* line 267
    <<A("SDKROOT"), P("="), A("macosx"), P(";")>> \o   \* line 268
    <<A("SWIFT_COMPILATION_MODE"), P("="), A("wholemodule"), P(";")>> \o   \* line 269
    <<A("SWIFT_VERSION"), P("="), A("6.0"), P(";")>> \o   \* line 270
    <<P("}"), P(";")>> \o   \* line 271
    <<A("name"), P("="), A("Release"), P(";")>> \o   \* line 272
    <<P("}"), P(";")>>   \* line 273

\* pbxproj_content, source lines 274-299
TargetDebugConfiguration ==
    <<S("target_debug_uuid"), C("Debug"), P("="), P("{")>> \o   \* line 274
    <<A("isa"), P("="), A("XCBuildConfiguration"), P(";")>> \o   \* line 275
    <<A("buildSettings"), P("="), P("{")>> \o   \* line 276
    <<A("CODE_SIGN_ENTITLEMENTS"), P("="), Q, Q, P(";")>> \o   \* line 277
    <<A("CODE_SIGN_STYLE"), P("="), A("Automatic"), P(";")>> \o   \* line 278
    <<A("COMBINE_HIDPI_IMAGES"), P("="), A("YES"), P(";")>> \o   \* line 279
    <<A("CURRENT_PROJECT_VERSION"), P("="), A("1"), P(";")>> \o   \* line 280
    <<A("DEVELOPMENT_TEAM"), P("="), Q, Q, P(";")>> \o   \* line 281
    <<A("ENABLE_HARDENED_RUNTIME"), P("="), A("YES"), P(";")>> \o   \* line 282
    <<A("GENERATE_INFOPLIST_FILE"), P("="), A("YES"), P(";")>> \o   \* line 283
    <<A("INFOPLIST_KEY_CFBundleDisplayName"), P("="), A("BetterDocs"), P(";")>> \o   \* line 284
    <<A("INFOPLIST_KEY_LSApplicationCategoryType"), P("="), Q, ST("public.app-category.productivity"), Q, P(";")>> \o   \* line 285
    <<A("INFOPLIST_KEY_NSHumanReadableCopyright"), P("="), Q, Q, P(";")>> \o   \* line 286
    <<A("INFOPLIST_KEY_NSPrincipalClass"), P("="), A("NSApplication"), P(";")>> \o   \* line 287
    <<A("LD_RUNPATH_SEARCH_PATHS"), P("="), P("(")>> \o   \* line 288
    <<Q, ST("$"), SP("("), ST("inherited"), SP(")"), Q, P(",")>> \o   \* line 289
    <<Q, ST("@executable_path/../Frameworks"), Q, P(",")>> \o   \* line 290
    <<P(")"), P(";")>> \o   \* line 291
    <<A("MARKETING_VERSION"), P("="), A("1.0"), P(";")>> \o   \* line 292
    <<A("PRODUCT_BUNDLE_IDENTIFIER"), P("="), A("com.betterdocs.app"), P(";")>> \o   \* line 293
    <<A("PRODUCT_NAME"), P("="), Q, ST("$"), SP("("), ST("TARGET_NAME"), SP(")"), Q, P(";")>> \o   \* line 294
    <<A("SWIFT_EMIT_LOC_STRINGS"), P("="), A("YES"), P(";")>> \o   \* line 295
    <<A("SWIFT_STRICT_CONCURRENCY"), P("="), A("minimal"), P(";")>> \o   \* line 296
    <<P("}"), P(";")>> \o   \* line 297
    <<A("name"), P("="), A("Debug"), P(";")>> \o   \* line 298
    <<P("}"), P(";")>>   \* line 299

\* pbxproj_content, source lines 300-326
TargetReleaseConfiguration ==
    <<S("target_release_uuid"), C("Release"), P("="), P("{")>> \o   \* line 300
    <<A("isa"), P("="), A("XCBuildConfiguration"), P(";")>> \o   \* line 301
    <<A("buildSettings"), P("="), P("{")>> \o   \* line 302
    <<A("CODE_SIGN_ENTITLEMENTS"), P("="), Q, Q, P(";")>> \o   \* line 303
    <<A("CODE_SIGN_STYLE"), P("="), A("Automatic"), P(";")>> \o   \* line 304
    <<A("COMBINE_HIDPI_IMAGES"), P("="), A("YES"), P(";")>> \o   \* line 305
    <<A("CURRENT_PROJECT_VERSION"), P("="), A("1"), P(";")>> \o   \* line 306
    <<A("DEVELOPMENT_TEAM"), P("="), Q, Q, P(";")>> \o   \* line 307
    <<A("ENABLE_HARDENED_RUNTIME"), P("="), A("YES"), P(";")>> \o   \* line 308
    <<A("GENERATE_INFOPLIST_FILE"), P("="), A("YES"), P(";")>> \o   \* line 309
    <<A("INFOPLIST_KEY_CFBundleDisplayName"), P("="), A("BetterDocs"), P(";")>> \o   \* line 310
    <<A("INFOPLIST_KEY_LSApplicationCategoryType"), P("="), Q, ST("public.app-category.productivity"), Q, P(";")>> \o   \* line 311
    <<A("INFOPLIST_KEY_NSHumanReadableCopyright"), P("="), Q, Q, P(";")>> \o   \* line 312
    <<A("INFOPLIST_KEY_NSPrincipalClass"), P("="), A("NSApplication"), P(";")>> \o   \* line 313
    <<A("LD_RUNPATH_SEARCH_PATHS"), P("="), P("(")>> \o   \* line 314
    <<Q, ST("$"), SP("("), ST("inherited"), SP(")"), Q, P(",")>> \o   \* line 315
    <<Q, ST("@executable_path/../Frameworks"), Q, P(",")>> \o   \* line 316
    <<P(")"), P(";")>> \o   \* line 317
    <<A("MARKETING_VERSION"), P("="), A("1.0"), P(";")>> \o   \* line 318
    <<A("PRODUCT_BUNDLE_IDENTIFIER"), P("="), A("com.betterdocs.app"), P(";")>> \o   \* line 319
    <<A("PRODUCT_NAME"), P("="), Q, ST("$"), SP("("), ST("TARGET_NAME"), SP(")"), Q, P(";")>> \o   \* line 320
    <<A("SWIFT_EMIT_LOC_STRINGS"), P("="), A("YES"), P(";")>> \o   \* line 321
    <<A("SWIFT_STRICT_CONCURRENCY"), P("="), A("minimal"), P(";")>> \o   \* line 322
    <<P("}"), P(";")>> \o   \* line 323
    <<A("name"), P("="), A("Release"), P(";")>> \o   \* line 324
    <<P("}"), P(";")>> \o   \* line 325
    <<C("End XCBuildConfiguration section")>>   \* line 326

\* pbxproj_content, source lines 328-347
XCConfigurationListSection ==
    <<C("Begin XCConfigurationList section")>> \o   \* line 328
    <<S("config_list_uuid"), C("Build configuration list for PBXProject \"BetterDocs\""), P("="), P("{")>> \o   \* line 329
    <<A("isa"), P("="), A("XCConfigurationList"), P(";")>> \o   \* line 330
    <<A("buildConfigurations"), P("="), P("(")>> \o   \* line 331
    <<S("debug_config_uuid"), C("Debug"), P(",")>> \o   \* line 332
    <<S("release_config_uuid"), C("Release"), P(",")>> \o   \* line 333
    <<P(")"), P(";")>> \o   \* line 334
    <<A("defaultConfigurationIsVisible"), P("="), A("0"), P(";")>> \o   \* line 335
    <<A("defaultConfigurationName"), P("="), A("Release"), P(";")>> \o   \* line 336
    <<P("}"), P(";")>> \o   \* line 337
    <<S("target_config_list_uuid"), C("Build configuration list for PBXNativeTarget \"BetterDocs\""), P("="), P("{")>> \o   \* line 338
    <<A("isa"), P("="), A("XCConfigurationList"), P(";")>> \o   \* line 339
    <<A("buildConfigurations"), P("="), P("(")>> \o   \* line 340
    <<S("target_debug_uuid"), C("Debug"), P(",")>> \o   \* line 341
    <<S("target_release_uuid"), C("Release"), P(",")>> \o   \* line 342
    <<P(")"), P(";")>> \o   \* line 343
    <<A("defaultConfigurationIsVisible"), P("="), A("0"), P(";")>> \o   \* line 344
    <<A("defaultConfigurationName"), P("="), A("Release"), P(";")>> \o   \* line 345
    <<P("}"), P(";")>> \o   \* line 346
    <<C("End XCConfigurationList section")>>   \* line 347

\* Trailer without the closing brace of the document.
Trailer_Unclosed ==
    <<P("}"), P(";")>> \o   \* line 348
    <<A("rootObject"), P("="), S("project_uuid"), C("Project object"), P(";")>>   \* line 349

\* Trailer with rootObject naming the main group.
Trailer_WrongRoot ==
    <<P("}"), P(";")>> \o   \* line 348
    <<A("rootObject"), P("="), S("main_group_uuid"), C("Project object"), P(";")>> \o   \* line 349
    <<P("}")>>   \* line 350

\* pbxproj_content, source lines 348-350
Trailer ==
    <<P("}"), P(";")>> \o   \* line 348
    <<A("rootObject"), P("="), S("project_uuid"), C("Project object"), P(";")>> \o   \* line 349
    <<P("}")>>   \* line 350

Template ==
    Header \o PBXFileReferenceSection \o PBXFileSystemSynchronizedRootGroupSection
    \o PBXFrameworksBuildPhaseSection \o PBXGroupSection \o PBXNativeTargetSection
    \o PBXProjectSection \o PBXResourcesBuildPhaseSection
    \o PBXSourcesBuildPhaseSection \o ProjectDebugConfiguration
    \o ProjectReleaseConfiguration \o TargetDebugConfiguration
    \o TargetReleaseConfiguration \o XCConfigurationListSection \o Trailer

\* The f-string: every replacement field becomes its variable's value, the rest
\* of the text stays.
Render(idset) ==
    [i \in 1..Len(Template) |->
        IF Template[i].t = "slot" THEN IdTok(idset[Template[i].v]) ELSE Template[i]]

\* ------------------------------------------------------------ file system

NoFile == [exists |-> FALSE, data |-> <<>>]

\* Bytes never written, read back as zeros.
NUL == [t |-> "nul", v |-> ""]

Max(a, b) == IF a >= b THEN a ELSE b

\* Overwrite with the descriptor in append mode: the data goes to the end.
Overwrite_Append(old, pos, data) == old \o data

\* write(2) of data at offset pos of a file holding old.
Overwrite(old, pos, data) ==
    [i \in 1..Max(Len(old), pos + Len(data)) |->
        IF i > pos /\ i <= pos + Len(data) THEN data[i - pos]
        ELSE IF i <= Len(old) THEN old[i] ELSE NUL]

\* The prefixes of data a failing write may leave behind.
Cuts(data) == {(i * Len(data)) \div NumCuts : i \in 0..(NumCuts - 1)}

\* The length in bytes of the rendered text (every identifier has 24).
DocBytes == 10522

\* io.DEFAULT_BUFFER_SIZE, or the block size of the file system when larger.
BufferSizes == {8192, 131072}

ClosedHandle == [open |-> FALSE, bufsize |-> 0, pos |-> 0, buf |-> <<>>]

\* The output of a run on the same path with other identifiers.
OldDocument == Render([r \in Roles |-> Identifier(FreshDraws(NumSeeds + 1)[r])])

Init ==
    /\ pc = [p \in Procs |-> "start"]
    /\ ids = [p \in Procs |-> NoIds]
    /\ pbxproj_content = [p \in Procs |-> <<>>]
    /\ fs_dir \in {"absent", "dir", "file"}
    /\ fs_file \in (IF fs_dir = "dir"
                    THEN {NoFile, [exists |-> TRUE, data |-> OldDocument]}
                    ELSE {NoFile})
    /\ fh = [p \in Procs |-> ClosedHandle]
    /\ events = [p \in Procs |-> <<>>]
    /\ exitcode = [p \in Procs |-> -1]
    /\ lastWriter = 0
    /\ startedAfter = [p \in Procs |-> {}]

\* ---------------------------------------------------------------- actions

Terminated(q) == pc[q] \in {"done", "failed"}

Log(p, e) == events' = [events EXCEPT ![p] = Append(@, e)]

\* Raise with the exception caught and dropped: the run goes on to its last
\* statements.
Raise_Swallowed(p, e) ==
    /\ pc' = [pc EXCEPT ![p] = "print_created"]
    /\ UNCHANGED exitcode
    /\ Log(p, e)

\* An exception nothing catches: the traceback is printed and the interpreter
\* exits with status 1.
Raise(p, e) ==
    /\ pc' = [pc EXCEPT ![p] = "failed"]
    /\ exitcode' = [exitcode EXCEPT ![p] = 1]
    /\ Log(p, e)

\* lines 10-24: the 15 draws.
GenerateUUIDs(p, draws) ==
    /\ pc[p] = "start"
    /\ \E u \in draws :
           ids' = [ids EXCEPT ![p] = [r \in Roles |-> Identifier(u[r])]]
    /\ startedAfter' = [startedAfter EXCEPT ![p] = {q \in Procs : Terminated(q)}]
    /\ pc' = [pc EXCEPT ![p] = "print_generating"]
    /\ UNCHANGED <<pbxproj_content, fs_dir, fs_file, fh, events, exitcode, lastWriter>>

\* line 26
PrintGenerating(p) ==
    /\ pc[p] = "print_generating"
    /\ Log(p, "print_generating")
    /\ pc' = [pc EXCEPT ![p] = "makedirs"]
    /\ UNCHANGED <<ids, pbxproj_content, fs_dir, fs_file, fh, exitcode, lastWriter,
                   startedAfter>>

\* line 29: os.makedirs("BetterDocs.xcodeproj", exist_ok=True).  An existing
\* directory is accepted; a file of that name is FileExistsError; creating the
\* directory may fail (PermissionError, ...).
Makedirs(p) ==
    /\ pc[p] = "makedirs"
    /\ \/ /\ fs_dir \in {"absent", "dir"}
          /\ fs_dir' = "dir"
          /\ Log(p, "makedirs_ok")
          /\ pc' = [pc EXCEPT ![p] = "render"]
          /\ UNCHANGED exitcode
       \/ /\ fs_dir \in {"absent", "file"}
          /\ Raise(p, "makedirs_error")
          /\ UNCHANGED fs_dir
    /\ UNCHANGED <<ids, pbxproj_content, fs_file, fh, lastWriter, startedAfter>>

\* lines 31-351
RenderTemplate(p) ==
    /\ pc[p] = "render"
    /\ pbxproj_content' = [pbxproj_content EXCEPT ![p] = Render(ids[p])]
    /\ pc' = [pc EXCEPT ![p] = "open"]
    /\ UNCHANGED <<ids, fs_dir, fs_file, fh, events, exitcode, lastWriter, startedAfter>>

\* line 353: open(path, "w") is O_WRONLY | O_CREAT | O_TRUNC; a failing open
\* leaves the file as it was.
Open(p) ==
    /\ pc[p] = "open"
    /\ \/ /\ fs_file' = [exists |-> TRUE, data |-> <<>>]
          /\ \E b \in BufferSizes :
                 fh' = [fh EXCEPT ![p] = [open |-> TRUE, bufsize |-> b, pos |-> 0,
                                           buf |-> <<>>]]
          /\ Log(p, "open_ok")
          /\ pc' = [pc EXCEPT ![p] = "write"]
          /\ UNCHANGED exitcode
       \/ /\ Raise(p, "open_error")
          /\ UNCHANGED <<fs_file, fh>>
    /\ UNCHANGED <<ids, pbxproj_content, fs_dir, lastWriter, startedAfter>>

\* write(2) of data through p's descriptor: all of it, or (ok = FALSE) a
\* prefix of it before the error.
RawWrite(p, data, ok) ==
    \E n \in (IF ok THEN {Len(data)} ELSE Cuts(data)) :
        /\ fs_file' = [exists |-> TRUE,
                       data |-> Overwrite(fs_file.data, fh[p].pos, SubSeq(data, 1, n))]
        /\ lastWriter' = p

\* line 354: f.write(pbxproj_content).  Text larger than the buffer goes
\* straight to the file; smaller text stays in the buffer until close.
Write(p) ==
    /\ pc[p] = "write"
    /\ IF DocBytes > fh[p].bufsize
       THEN \/ /\ RawWrite(p, pbxproj_content[p], TRUE)
               /\ fh' = [fh EXCEPT ![p].pos = @ + Len(pbxproj_content[p])]
               /\ Log(p, "write_ok")
               /\ pc' = [pc EXCEPT ![p] = "close"]
            \/ /\ RawWrite(p, pbxproj_content[p], FALSE)
               /\ UNCHANGED fh
               /\ Log(p, "write_error")
               /\ pc' = [pc EXCEPT ![p] = "close_raising"]
       ELSE /\ fh' = [fh EXCEPT ![p].buf = pbxproj_content[p]]
            /\ Log(p, "write_ok")
            /\ pc' = [pc EXCEPT ![p] = "close"]
            /\ UNCHANGED <<fs_file, lastWriter>>
    /\ UNCHANGED <<ids, pbxproj_content, fs_dir, exitcode, startedAfter>>

\* lines 353-354: leaving the with block closes f, which first flushes the
\* buffer; the descriptor is closed whether or not the flush succeeds.  An
\* exception of the body goes on after the close.
Close(p) ==
    /\ pc[p] \in {"close", "close_raising"}
    /\ IF fh[p].buf = <<>>
       THEN /\ fh' = [fh EXCEPT ![p] = ClosedHandle]
            /\ UNCHANGED <<fs_file, lastWriter>>
            /\ IF pc[p] = "close"
               THEN /\ Log(p, "close_ok")
                    /\ pc' = [pc EXCEPT ![p] = "print_created"]
                    /\ UNCHANGED exitcode
               ELSE Raise(p, "close_ok")
       ELSE \/ /\ RawWrite(p, fh[p].buf, TRUE)
               /\ fh' = [fh EXCEPT ![p] = ClosedHandle]
               /\ Log(p, "close_ok")
               /\ pc' = [pc EXCEPT ![p] = "print_created"]
               /\ UNCHANGED exitcode
            \/ /\ RawWrite(p, fh[p].buf, FALSE)
               /\ fh' = [fh EXCEPT ![p] = ClosedHandle]
               /\ Raise(p, "close_error")
    /\ UNCHANGED <<ids, pbxproj_content, fs_dir, startedAfter>>

\* lines 356-357, and the end of the script: exit status 0.
PrintCreated(p) ==
    /\ pc[p] = "print_created"
    /\ events' = [events EXCEPT ![p] = @ \o <<"print_created", "print_hint">>]
    /\ pc' = [pc EXCEPT ![p] = "done"]
    /\ exitcode' = [exitcode EXCEPT ![p] = 0]
    /\ UNCHANGED <<ids, pbxproj_content, fs_dir, fs_file, fh, lastWriter, startedAfter>>

Step(p, draws) ==
    \/ GenerateUUIDs(p, draws)
    \/ PrintGenerating(p)
    \/ Makedirs(p)
    \/ RenderTemplate(p)
    \/ Open(p)
    \/ Write(p)
    \/ Close(p)
    \/ PrintCreated(p)

\* One invocation.
Next == Step(1, Uuid4Draws)

Spec == Init /\ [][Next]_vars

\* Two invocations against the same path, their steps interleaved.
NextConc == \E p \in Procs : Step(p, Uuid4DrawsConc)

SpecConc == Init /\ [][NextConc]_vars

\* ------------------------------------------------- reading the document back

\* The document as the target format reads it: comments dropped, a quoted
\* string kept as its two quotes.
Structural(doc) ==
    SelectSeq(doc, LAMBDA tok : tok.t \in {"punct", "atom", "id", "slot", "quote"})

IsP(tok, c) == tok.t = "punct" /\ tok.v = c

Delta(tok) ==
    IF tok.t = "punct" /\ tok.v \in {"{", "("} THEN 1
    ELSE IF tok.t = "punct" /\ tok.v \in {"}", ")"} THEN -1
    ELSE 0

\* The nesting depth after each of the tokens lo..hi of d, base before them.
RECURSIVE Balances(_, _, _, _)
Balances(d, lo, hi, base) ==
    IF lo > hi THEN <<>>
    ELSE IF lo = hi THEN <<base + Delta(d[lo])>>
    ELSE LET mid == (lo + hi) \div 2
             left == Balances(d, lo, mid, base)
         IN  left \o Balances(d, mid + 1, hi, left[Len(left)])

\* The depth token i sits at, bal being Balances of the whole sequence.
DepthAt(bal, i) == IF i = 1 THEN 0 ELSE bal[i - 1]

\* The first position in lo..hi where the depth is back at depth.
CloseOf(bal, lo, hi, depth) ==
    CHOOSE j \in lo..hi : bal[j] = depth /\ \A k \in lo..(j - 1) : bal[k] > depth

IsEntry(d, bal, i, depth) ==
    /\ i + 2 <= Len(d)
    /\ DepthAt(bal, i) = depth
    /\ d[i].t \in {"atom", "id", "slot"}
    /\ IsP(d[i + 1], "=")

\* The positions in lo..hi of the entries named name of a dictionary at depth.
FieldPos(d, bal, lo, hi, depth, name) ==
    {f \in lo..hi : IsEntry(d, bal, f, depth) /\ d[f].t = "atom" /\ d[f].v = name}

\* The value of the entry name when it is a single word, "" when absent.
Scalar(d, bal, lo, hi, depth, name) ==
    LET fs == FieldPos(d, bal, lo, hi, depth, name)
    IN  IF fs = {} THEN ""
        ELSE LET f == CHOOSE f \in fs : \A g \in fs : f <= g
             IN  IF d[f + 2].t \in {"atom", "id"} THEN d[f + 2].v ELSE ""

\* The words of the entry name when it is a ( ... ) list, <<>> when absent.
List(d, bal, lo, hi, depth, name) ==
    LET fs == FieldPos(d, bal, lo, hi, depth, name)
    IN  IF fs = {} THEN <<>>
        ELSE LET f == CHOOSE f \in fs : \A g \in fs : f <= g
             IN  IF ~IsP(d[f + 2], "(") THEN <<>>
                 ELSE LET close == CloseOf(bal, f + 2, hi, depth)
                          items == SelectSeq(SubSeq(d, f + 3, close - 1),
                                             LAMBDA tok : tok.t \in {"atom", "id"})
                      IN  [k \in 1..Len(items) |-> items[k].v]

\* The keys of the dictionary that is the value of the entry name.
DictKeys(d, bal, lo, hi, depth, name) ==
    LET fs == FieldPos(d, bal, lo, hi, depth, name)
    IN  IF fs = {} THEN {}
        ELSE LET f == CHOOSE f \in fs : \A g \in fs : f <= g
             IN  IF ~IsP(d[f + 2], "{") THEN {}
                 ELSE LET close == CloseOf(bal, f + 2, hi, depth)
                      IN  {d[j].v : j \in {j \in (f + 3)..(close - 1) :
                                               IsEntry(d, bal, j, depth + 1)}}

\* One object record of the objects dictionary, read from d[lo..hi], lo its key.
ObjectRecord(d, bal, lo, hi) ==
    [ key |-> d[lo].v,
      isa |-> Scalar(d, bal, lo, hi, 3, "isa"),
      name |-> Scalar(d, bal, lo, hi, 3, "name"),
      mainGroup |-> Scalar(d, bal, lo, hi, 3, "mainGroup"),
      productRefGroup |-> Scalar(d, bal, lo, hi, 3, "productRefGroup"),
      buildConfigurationList |-> Scalar(d, bal, lo, hi, 3, "buildConfigurationList"),
      productReference |-> Scalar(d, bal, lo, hi, 3, "productReference"),
      defaultConfigurationName |-> Scalar(d, bal, lo, hi, 3, "defaultConfigurationName"),
      children |-> List(d, bal, lo, hi, 3, "children"),
      targets |-> List(d, bal, lo, hi, 3, "targets"),
      buildPhases |-> List(d, bal, lo, hi, 3, "buildPhases"),
      fileSystemSynchronizedGroups |-> List(d, bal, lo, hi, 3, "fileSystemSynchronizedGroups"),
      buildConfigurations |-> List(d, bal, lo, hi, 3, "buildConfigurations"),
      targetAttributes |->
          LET as == FieldPos(d, bal, lo, hi, 3, "attributes")
          IN  IF as = {} THEN {}
              ELSE DictKeys(d, bal, CHOOSE a \in as : TRUE, hi, 4, "TargetAttributes"),
      refs |-> {d[j].v : j \in {j \in (lo + 1)..hi : d[j].t = "id"}} ]

\* The document read back: its rootObject and its object records in order.
Parse(doc) ==
    LET d == Structural(doc)
        bal == Balances(d, 1, Len(d), 0)
        os == FieldPos(d, bal, 1, Len(d), 1, "objects")
        o == CHOOSE o \in os : TRUE
        close == CloseOf(bal, o + 2, Len(d), 1)
        keys == SelectSeq([i \in 1..Len(d) |-> i],
                          LAMBDA i : /\ i > o + 2
                                     /\ i < close
                                     /\ IsEntry(d, bal, i, 2)
                                     /\ IsP(d[i + 2], "{"))
    IN  [ rootObject |-> Scalar(d, bal, 1, Len(d), 1, "rootObject"),
          objects |->
              IF os = {} THEN <<>>
              ELSE [k \in 1..Len(keys) |->
                       ObjectRecord(d, bal, keys[k],
                                    IF k < Len(keys) THEN keys[k + 1] - 1 ELSE close - 1)] ]

\* ----------------------------------------------------------------- claims

\* pbxproj_content[p] is assigned once, by RenderTemplate; the document is
\* examined in the state that assignment leads to.
Rendered(p) == pc[p] = "open" /\ pbxproj_content[p] # <<>>

Range(s) == {s[i] : i \in 1..Len(s)}

Distinct(idset) == \A r1, r2 \in Roles : r1 # r2 => idset[r1] # idset[r2]

\* C1: in every invocation the 15 role identifiers are pairwise distinct.
C1_IdentifiersDistinct ==
    \A p \in Procs : pc[p] # "start" => Distinct(ids[p])

\* The naive counter over tokens lo..hi: every open and close character counts,
\* wherever it stands.  total is the count when done, low the lowest on the way.
RECURSIVE NaiveCount(_, _, _, _, _)
NaiveCount(doc, lo, hi, open, close) ==
    IF lo > hi THEN [total |-> 0, low |-> 0]
    ELSE IF lo = hi
    THEN LET n == IF doc[lo].t \in {"punct", "strpunct"} /\ doc[lo].v = open THEN 1
                  ELSE IF doc[lo].t \in {"punct", "strpunct"} /\ doc[lo].v = close THEN -1
                  ELSE 0
         IN  [total |-> n, low |-> IF n < 0 THEN n ELSE 0]
    ELSE LET mid == (lo + hi) \div 2
             l == NaiveCount(doc, lo, mid, open, close)
             r == NaiveCount(doc, mid + 1, hi, open, close)
         IN  [total |-> l.total + r.total,
              low |-> IF l.low <= l.total + r.low THEN l.low ELSE l.total + r.low]

NaiveBalanced(doc, open, close) ==
    LET c == NaiveCount(doc, 1, Len(doc), open, close)
    IN  c.total = 0 /\ c.low = 0

\* C9: in every rendered document the naive counts of { against } and of
\* ( against ) end at zero and never go below zero on the way.
C9_NaiveCounterBalanced ==
    \A p \in Procs :
        Rendered(p) => /\ NaiveBalanced(pbxproj_content[p], "{", "}")
                       /\ NaiveBalanced(pbxproj_content[p], "(", ")")

\* A rendered document with brackets, some of them inside quoted strings.
C9_Witness ==
    \E p \in Procs :
        /\ Rendered(p)
        /\ P("{") \in Range(pbxproj_content[p])
        /\ SP("(") \in Range(pbxproj_content[p])
        /\ ~Distinct(ids[p])

RequiredKinds ==
    { "PBXFileReference", "PBXFileSystemSynchronizedRootGroup",
      "PBXFrameworksBuildPhase", "PBXGroup", "PBXNativeTarget", "PBXProject",
      "PBXResourcesBuildPhase", "PBXSourcesBuildPhase", "XCBuildConfiguration",
      "XCConfigurationList" }

OfKind(g, kind) == SelectSeq(g.objects, LAMBDA o : o.isa = kind)

\* C3, as claimed: the objects of a rendered document number exactly one of
\* each required kind.
C3_ExactlyOneOfEachKind ==
    \A p \in Procs :
        Rendered(p) =>
            LET g == Parse(pbxproj_content[p])
            IN  \A kind \in RequiredKinds : Len(OfKind(g, kind)) = 1

KindCount(kind) ==
    CASE kind = "PBXGroup" -> 2
      [] kind = "XCConfigurationList" -> 2
      [] kind = "XCBuildConfiguration" -> 4
      [] OTHER -> 1

\* C3, amended: a rendered document holds 15 object records, each of a required
\* kind: two PBXGroup, two XCConfigurationList, four XCBuildConfiguration and
\* one of each of the other seven kinds.
C3_KindCounts ==
    \A p \in Procs :
        Rendered(p) =>
            LET g == Parse(pbxproj_content[p])
            IN  /\ Len(g.objects) = 15
                /\ \A k \in 1..Len(g.objects) : g.objects[k].isa \in RequiredKinds
                /\ \A kind \in RequiredKinds : Len(OfKind(g, kind)) = KindCount(kind)

\* A rendered document whose four build configurations are read back.
C3_Witness ==
    \E p \in Procs :
        /\ Rendered(p)
        /\ Len(OfKind(Parse(pbxproj_content[p]), "XCBuildConfiguration")) = 4

\* C4: the rendered object graph is wired as specified, for every identifier
\* set: rootObject, the project's mainGroup and buildConfigurationList, the
\* children of the two groups, the target's configuration list, build phases
\* in order, synchronized group and product, and both configuration lists with
\* their own Debug then Release configuration and Release as the default.
C4_Wiring ==
    \A p \in Procs :
        Rendered(p) =>
            LET g == Parse(pbxproj_content[p])
                id == ids[p]
                project == OfKind(g, "PBXProject")
                groups == OfKind(g, "PBXGroup")
                target == OfKind(g, "PBXNativeTarget")
                lists == OfKind(g, "XCConfigurationList")
                configs == OfKind(g, "XCBuildConfiguration")
                only(kind) == OfKind(g, kind)
            IN  /\ g.rootObject = id["project_uuid"]
                /\ Len(project) = 1
                /\ project[1].key = id["project_uuid"]
                /\ project[1].mainGroup = id["main_group_uuid"]
                /\ project[1].buildConfigurationList = id["config_list_uuid"]
                /\ Len(groups) = 2
                /\ groups[1].key = id["main_group_uuid"]
                /\ groups[1].children = <<id["sources_group_uuid"], id["products_group_uuid"]>>
                /\ groups[2].key = id["products_group_uuid"]
                /\ groups[2].children = <<id["product_ref_uuid"]>>
                /\ Len(target) = 1
                /\ target[1].key = id["native_target_uuid"]
                /\ target[1].buildConfigurationList = id["target_config_list_uuid"]
                /\ target[1].buildPhases = << id["sources_build_phase_uuid"],
                                              id["frameworks_build_phase_uuid"],
                                              id["resources_build_phase_uuid"] >>
                /\ target[1].fileSystemSynchronizedGroups = <<id["sources_group_uuid"]>>
                /\ target[1].productReference = id["product_ref_uuid"]
                /\ [k \in 1..Len(only("PBXSourcesBuildPhase")) |->
                        only("PBXSourcesBuildPhase")[k].key] = <<id["sources_build_phase_uuid"]>>
                /\ [k \in 1..Len(only("PBXFrameworksBuildPhase")) |->
                        only("PBXFrameworksBuildPhase")[k].key] = <<id["frameworks_build_phase_uuid"]>>
                /\ [k \in 1..Len(only("PBXResourcesBuildPhase")) |->
                        only("PBXResourcesBuildPhase")[k].key] = <<id["resources_build_phase_uuid"]>>
                /\ [k \in 1..Len(only("PBXFileSystemSynchronizedRootGroup")) |->
                        only("PBXFileSystemSynchronizedRootGroup")[k].key] = <<id["sources_group_uuid"]>>
                /\ [k \in 1..Len(only("PBXFileReference")) |->
                        only("PBXFileReference")[k].key] = <<id["product_ref_uuid"]>>
                /\ Len(lists) = 2
                /\ lists[1].key = id["config_list_uuid"]
                /\ lists[1].buildConfigurations = <<id["debug_config_uuid"], id["release_config_uuid"]>>
                /\ lists[1].defaultConfigurationName = "Release"
                /\ lists[2].key = id["target_config_list_uuid"]
                /\ lists[2].buildConfigurations = <<id["target_debug_uuid"], id["target_release_uuid"]>>
                /\ lists[2].defaultConfigurationName = "Release"
                /\ [k \in 1..Len(configs) |-> configs[k].key] =
                       << id["debug_config_uuid"], id["release_config_uuid"],
                          id["target_debug_uuid"], id["target_release_uuid"] >>
                /\ [k \in 1..Len(configs) |-> configs[k].name] =
                       <<"Debug", "Release", "Debug", "Release">>

\* A document rendered from 15 different identifiers, its rootObject read back.
C4_Witness ==
    \E p \in Procs :
        /\ Rendered(p)
        /\ Distinct(ids[p])
        /\ Parse(pbxproj_content[p]).rootObject = ids[p]["project_uuid"]

\* How often the identifier v stands in the document text.
Occurrences(doc, v) ==
    Cardinality({i \in 1..Len(doc) : doc[i].t = "id" /\ doc[i].v = v})

\* How many object records have the key v.
KeyOccurrences(g, v) ==
    Cardinality({k \in 1..Len(g.objects) : g.objects[k].key = v})

\* The number of sites the claim gives each role: the native target two.
ClaimedCount(r) ==
    CASE r \in {"products_group_uuid", "sources_group_uuid", "product_ref_uuid"} -> 3
      [] OTHER -> 2

\* C5, as claimed: every role's identifier is the key of exactly one object and
\* stands at its reference sites only; the native target's at two sites, its
\* object key and the project's targets list.
C5_CountsAsClaimed ==
    \A p \in Procs :
        Rendered(p) =>
            LET g == Parse(pbxproj_content[p])
            IN  \A r \in Roles :
                    /\ KeyOccurrences(g, ids[p][r]) = 1
                    /\ Occurrences(pbxproj_content[p], ids[p][r]) = ClaimedCount(r)

\* The sites of each role in the template: its object key and the references.
ExpectedCount(r) ==
    CASE r \in {"products_group_uuid", "sources_group_uuid", "product_ref_uuid",
                "native_target_uuid"} -> 3
      [] OTHER -> 2

RECURSIVE SumExpected(_)
SumExpected(rs) ==
    IF rs = {} THEN 0
    ELSE LET r == CHOOSE r \in rs : TRUE
         IN  ExpectedCount(r) + SumExpected(rs \ {r})

\* C5, amended: every identifier of the set is an object key once per role
\* that holds it and stands in the document as often as the roles holding it
\* have sites: 3 for the products group, the sources group, the product
\* reference and the native target, 2 for every other role.  The native
\* target's three sites are its object key, its key inside the project's
\* attributes.TargetAttributes and its entry in the project's targets list.
C5_SiteCounts ==
    \A p \in Procs :
        Rendered(p) =>
            LET g == Parse(pbxproj_content[p])
                doc == pbxproj_content[p]
                native == ids[p]["native_target_uuid"]
            IN  /\ \A r \in Roles :
                       LET same == {q \in Roles : ids[p][q] = ids[p][r]}
                       IN  /\ KeyOccurrences(g, ids[p][r]) = Cardinality(same)
                           /\ Occurrences(doc, ids[p][r]) = SumExpected(same)
                /\ Cardinality({i \in 1..Len(doc) : doc[i].t = "id"}) = SumExpected(Roles)
                /\ \A k \in 1..Len(g.objects) :
                       /\ g.objects[k].isa = "PBXNativeTarget" => g.objects[k].key = native
                       /\ g.objects[k].isa = "PBXProject" =>
                              /\ g.objects[k].targetAttributes = {native}
                              /\ g.objects[k].targets = <<native>>

\* A document of 15 different identifiers in which the native target's stands
\* three times.
C5_Witness ==
    \E p \in Procs :
        /\ Rendered(p)
        /\ Distinct(ids[p])
        /\ Occurrences(pbxproj_content[p], ids[p]["native_target_uuid"]) = 3

\* The keys reached from the keys in seen by following references.
RECURSIVE Reach(_, _)
Reach(g, seen) ==
    LET more == seen \cup UNION {g.objects[k].refs :
                                    k \in {k \in 1..Len(g.objects) : g.objects[k].key \in seen}}
    IN  IF more = seen THEN seen ELSE Reach(g, more)

\* C10: the object graph of a rendered document is closed and connected: every
\* identifier at a reference site is the key of an object of the objects
\* mapping, the mapping holds the 15 objects, and each is reached from
\* rootObject.
C10_ClosedAndConnected ==
    \A p \in Procs :
        Rendered(p) =>
            LET g == Parse(pbxproj_content[p])
                keys == {g.objects[k].key : k \in 1..Len(g.objects)}
                sites == {g.rootObject} \cup UNION {g.objects[k].refs : k \in 1..Len(g.objects)}
            IN  /\ sites \subseteq keys
                /\ Cardinality(keys) = 15
                /\ Reach(g, {g.rootObject}) = keys

\* C2: the output is all-or-nothing: a run that ended in an error has left
\* project.pbxproj as it was (absent, or the complete document of an earlier
\* run), and a run that ended well has left its own complete document.
C2_AllOrNothing ==
    /\ pc[1] = "failed" =>
           \/ fs_file = NoFile
           \/ fs_file = [exists |-> TRUE, data |-> OldDocument]
    /\ pc[1] = "done" => fs_file = [exists |-> TRUE, data |-> pbxproj_content[1]]

\* C6: of two invocations in succession that both end well, the second leaves
\* exactly its own document in the file, and that differs from the first's.
C6_RerunReplaces ==
    \A p, q \in Procs :
        (p # q /\ pc[p] = "done" /\ pc[q] = "done" /\ p \in startedAfter[q]) =>
            /\ fs_file = [exists |-> TRUE, data |-> pbxproj_content[q]]
            /\ pbxproj_content[q] # pbxproj_content[p]

\* C7: once two invocations against the same path have both run to their end,
\* whatever the interleaving of their steps, the file holds exactly the
\* complete document of the one whose data was written last.
C7_LastWriterWins ==
    (\A p \in Procs : pc[p] = "done") =>
        /\ lastWriter \in Procs
        /\ fs_file = [exists |-> TRUE, data |-> pbxproj_content[lastWriter]]

\* Two overlapping invocations (neither began after the other was over) with
\* different documents, both over, the first one's data written last.
C7_Witness ==
    /\ \A p \in Procs : pc[p] = "done" /\ startedAfter[p] = {}
    /\ pbxproj_content[1] # pbxproj_content[2]
    /\ lastWriter = 1

ErrorEvents == {"makedirs_error", "open_error", "write_error", "close_error"}

\* C8: the confirmation is printed only after the directory was ensured, the
\* complete document written and the file closed, and the run then exits 0; a
\* failing makedirs, open, write or close ends the run with a non-zero status
\* and no confirmation; after a failed makedirs nothing is rendered, opened or
\* written.
C8_ExitAndOrder ==
    \A p \in Procs :
        LET e == events[p]
        IN  /\ "print_created" \in Range(e) =>
                   /\ SubSeq(e, 1, 5) = << "print_generating", "makedirs_ok", "open_ok",
                                           "write_ok", "close_ok" >>
                   /\ pc[p] = "done"
                   /\ fs_dir = "dir"
                   /\ ~fh[p].open
                   /\ lastWriter = p
                   /\ fs_file = [exists |-> TRUE, data |-> Render(ids[p])]
            /\ pc[p] = "done" <=> exitcode[p] = 0
            /\ pc[p] = "done" => "print_created" \in Range(e)
            /\ pc[p] = "failed" <=> exitcode[p] > 0
            /\ pc[p] = "failed" <=> (Range(e) \cap ErrorEvents # {} /\ pc[p] # "close_raising")
            /\ Range(e) \cap ErrorEvents # {} => "print_created" \notin Range(e)
            /\ "makedirs_error" \in Range(e) =>
                   /\ e = <<"print_generating", "makedirs_error">>
                   /\ pbxproj_content[p] = <<>>
                   /\ ~fh[p].open
                   /\ lastWriter # p
            /\ "open_error" \in Range(e) =>
                   e = <<"print_generating", "makedirs_ok", "open_error">>

\* A run that ended well: both messages printed, exit status 0.
C8_Witness ==
    /\ pc[1] = "done"
    /\ exitcode[1] = 0
    /\ events[1][Len(events[1])] = "print_hint"

====
